---- MODULE Spec2Model ----
(***************************************************************************)
(* Model of src/src/odt.ts and src/src/utils.ts: the tag scanner           *)
(* (listNodes), the node matcher (findNodes and its two filters), the      *)
(* content mutator (OpenDocumentText.injectVar / innerXml / #unsafe), the  *)
(* node factory (NodeFactory.newNode), the escaper (escapeLibreOffice)     *)
(* and the column range expander (calcColumns / rangeChar).                *)
(*                                                                         *)
(* Buffers are TLA+ strings.  Offsets are the 0-based offsets of the       *)
(* source; substring(s, a, b) is String.prototype.substring.               *)
(***************************************************************************)
EXTENDS Integers, Sequences, FiniteSets, TLC

VARIABLES
  content,   \* OpenDocumentText.#content
  pc,        \* position of the running operation ("idle" between calls)
  gen,       \* state of the findNodes generator the operation is consuming
  call,      \* arguments of the running (or last) call
  before,    \* #content when the running (or last) call was entered
  splices,   \* the #unsafe calls of the running (or last) call, in order
  yielded,   \* the nodes the generator has yielded to the running call
  log,       \* console.warn calls of the running (or last) call
  factory,   \* NodeFactory.#options
  factory0,  \* NodeFactory.#options as the constructor and the setters left it
  result     \* return value of the last pure call (newNode, calcColumns, ...)

vars == <<content, pc, gen, call, before, splices, yielded, log,
          factory, factory0, result>>

-----------------------------------------------------------------------------
(* JavaScript values                                                       *)

\* the JavaScript value undefined (never a string of the model: it has a
\* character outside every buffer alphabet)
Undefined == "\\undefined"

\* 0-based character access; "" past the end (String.prototype.charAt)
charAt(s, i) == IF i >= 0 /\ i < Len(s) THEN SubSeq(s, i + 1, i + 1) ELSE ""

Min(a, b) == IF a <= b THEN a ELSE b

Max(a, b) == IF a >= b THEN a ELSE b

\* String.prototype.substring(a, b): arguments clamped to [0, length] and
\* swapped when a > b
substring(s, a, b) ==
  LET ca == Max(0, Min(a, Len(s)))
      cb == Max(0, Min(b, Len(s)))
  IN  SubSeq(s, Min(ca, cb) + 1, Max(ca, cb))

\* String.prototype.substring(a)
substringFrom(s, a) == substring(s, a, Len(s))

\* the ASCII characters 32..95 and 97..126 in code order (character 96, the
\* grave accent, cannot be written in a TLA+ string and is in no buffer)
AsciiLow == " !\"#$%&'()*+,-./0123456789:;<=>?@ABCDEFGHIJKLMNOPQRSTUVWXYZ[\\]^_"

AsciiHigh == "abcdefghijklmnopqrstuvwxyz{|}~"

\* String.fromCharCode for 32..126 except 96
fromCharCode(n) ==
  IF n < 96 THEN SubSeq(AsciiLow, n - 31, n - 31)
  ELSE SubSeq(AsciiHigh, n - 96, n - 96)

\* characters with codes lo..hi
CharRange(lo, hi) == {fromCharCode(c) : c \in (lo..hi) \ {96}}

\* String.prototype.charCodeAt for a one-character ASCII string
charCode(c) == CHOOSE n \in (32..126) \ {96} : fromCharCode(n) = c

\* regular-expression class \w
WordChars == CharRange(48, 57) \cup CharRange(65, 90) \cup CharRange(97, 122) \cup {"_"}

\* regular-expression class [\w-]
WordDashChars == WordChars \cup {"-"}

\* regular-expression class \s (the members a buffer of the model can hold)
SpaceChars == {" ", "\t", "\n", "\r", "\f"}

\* regular-expression class [!-~]
KeyChars == CharRange(33, 126)

\* regular-expression class [ -!#-;=?-~]
ValueChars == CharRange(32, 33) \cup CharRange(35, 59) \cup {"="} \cup CharRange(63, 126)

\* the single member of a one-member set
The(S) == CHOOSE x \in S : TRUE

\* F applied to the value of v, v being evaluated once
Bind(v, F(_)) == The({F(x) : x \in {v}})

\* offset just past the longest run of characters of class cls starting at i
runEnd(s, i, cls) ==
  IF i >= Len(s) THEN i
  ELSE CHOOSE j \in i..Len(s) :
         /\ j = Len(s) \/ charAt(s, j) \notin cls
         /\ \A m \in i..(j - 1) : charAt(s, m) \in cls

-----------------------------------------------------------------------------
(* The two regular expressions of odt.ts, matched as a backtracking engine  *)
(* matches them: leftmost start, greedy quantifiers, the longest candidate  *)
(* of a repetition tried first.  A failed match is NoMatch.                 *)

NoMatch == [matched |-> FALSE]

\* One attribute  [!-~]+="[ -!#-;=?-~]+"  with its key ending at k
\* (exclusive): the offset past the closing quote, or -1.  The value class
\* holds no quote, so the value is the whole run before the quote.
attrEnd(s, k) ==
  IF charAt(s, k) = "=" /\ charAt(s, k + 1) = "\""
  THEN Bind(runEnd(s, k + 2, ValueChars),
            LAMBDA v : IF v > k + 2 /\ charAt(s, v) = "\"" THEN v + 1 ELSE -1)
  ELSE -1

\* the offsets k at which a key starting at q can end with an attribute
\* following: q < k within the run of key characters from q
keyEnds(s, q) ==
  {k \in (q + 1)..runEnd(s, q, KeyChars) : attrEnd(s, k) # -1}

\* the largest member of a non-empty set of numbers
Largest(S) == CHOOSE x \in S : \A y \in S : y <= x

\* ([!-~]+="[ -!#-;=?-~]+"\s*)*(\/)?>  anchored at q.  The star is greedy:
\* an attribute is tried first, its key the longest candidate (the largest
\* of ks) after which the rest of the expression still matches; when no
\* attribute lets the rest match, the tag must end here.
RECURSIVE tailFrom(_, _), tailKey(_, _, _)
tailFrom(s, q) == Bind(keyEnds(s, q), LAMBDA ks : tailKey(s, q, ks))
tailKey(s, q, ks) ==
  IF ks = {}
  THEN IF charAt(s, q) = "/" /\ charAt(s, q + 1) = ">"
       THEN [matched |-> TRUE, last |-> q + 2, prematureEnd |-> TRUE]
       ELSE IF charAt(s, q) = ">"
       THEN [matched |-> TRUE, last |-> q + 1, prematureEnd |-> FALSE]
       ELSE NoMatch
  ELSE Bind(Largest(ks), LAMBDA k :
         Bind(tailFrom(s, runEnd(s, attrEnd(s, k), SpaceChars)), LAMBDA rest :
           IF rest.matched THEN rest ELSE tailKey(s, q, ks \ {k})))

\* [\w-]+ then \s* and the tail, the name ending at e (exclusive): the
\* longest name first, down to one character
RECURSIVE nameThenTail(_, _, _)
nameThenTail(s, nameStart, e) ==
  IF e <= nameStart THEN NoMatch
  ELSE Bind(tailFrom(s, runEnd(s, e, SpaceChars)), LAMBDA t :
         IF t.matched THEN t @@ [nameEnd |-> e]
         ELSE nameThenTail(s, nameStart, e - 1))

\* reNode = /<(\/)?(\w+:[\w-]+)\s*([!-~]+="[ -!#-;=?-~]+"\s*)*(\/)?>/gm
\* anchored at offset i of s
reNodeAt(s, i) ==
  IF charAt(s, i) # "<" THEN NoMatch
  ELSE
    LET slash == charAt(s, i + 1) = "/"
        p == IF slash THEN i + 2 ELSE i + 1
    IN  Bind(runEnd(s, p, WordChars), LAMBDA w :
          IF ~(w > p /\ charAt(s, w) = ":") THEN NoMatch
          ELSE Bind(nameThenTail(s, w + 1, runEnd(s, w + 1, WordDashChars)),
                    LAMBDA t :
                      IF ~t.matched THEN NoMatch
                      ELSE [matched |-> TRUE, index |-> i,
                            all |-> substring(s, i, t.last),
                            end |-> slash, node |-> substring(s, p, t.nameEnd),
                            prematureEnd |-> t.prematureEnd]))

\* the least offset at or after from that holds a character of class cls,
\* or Len(s) when there is none
nextIn(s, from, cls) ==
  CHOOSE i \in from..Max(from, Len(s)) :
    /\ i >= Len(s) \/ charAt(s, i) \in cls
    /\ \A j \in from..(i - 1) : charAt(s, j) \notin cls

\* reNode.exec(s) with reNode.lastIndex = from: the leftmost match at or
\* after from.  A match starts with "<", so only those offsets are tried.
RECURSIVE reNodeExec(_, _)
reNodeExec(s, from) ==
  Bind(nextIn(s, from, {"<"}), LAMBDA i :
    IF i >= Len(s) THEN NoMatch
    ELSE Bind(reNodeAt(s, i), LAMBDA m :
           IF m.matched THEN m ELSE reNodeExec(s, i + 1)))

\* re.exec(s) with re.lastIndex = from, for
\* re = /([!-~]+)="([ -!#-;=?-~]+)"/gm: the leftmost match at or after from,
\* its key the longest candidate.  A match starts on a key character q; the
\* key ends a start further right can use are among those q can use, so
\* when q has none the whole run of key characters from q is skipped.
RECURSIVE reAttrExec(_, _)
reAttrExec(s, from) ==
  Bind(nextIn(s, from, KeyChars), LAMBDA q :
    IF q >= Len(s) THEN NoMatch
    ELSE Bind(keyEnds(s, q), LAMBDA ks :
           IF ks = {} THEN reAttrExec(s, runEnd(s, q, KeyChars))
           ELSE Bind(Largest(ks), LAMBDA k :
                  Bind(attrEnd(s, k), LAMBDA a :
                    [matched |-> TRUE, last |-> a, key |-> substring(s, q, k),
                     value |-> substring(s, k + 2, a - 1)]))))

\* listAttributes(str): every key="value" of the tag text, a later key
\* overwriting an earlier equal one
RECURSIVE listAttributesFrom(_, _, _)
listAttributesFrom(str, from, attributes) ==
  Bind(reAttrExec(str, from), LAMBDA m :
    IF ~m.matched THEN attributes
    ELSE Bind((m.key :> m.value) @@ attributes,
              LAMBDA a : listAttributesFrom(str, m.last, a)))

listAttributes(str) == listAttributesFrom(str, 0, <<>>)

-----------------------------------------------------------------------------
(* Tag scanner and node matcher.  A generator is modelled by the state it   *)
(* keeps between two resumptions: for listNodes that is reNode.lastIndex    *)
(* over xml.substring(start), or StreamDone once multiMatchs has returned.  *)

StreamDone == -1

\* an absent optional field of an options object
optional(options, field, default) ==
  IF field \in DOMAIN options THEN options[field] ELSE default

\* one resumption of multiMatchs(re, content) for re = reNode: re.exec from
\* the expression's lastIndex, the generator returning on the first null
multiMatchs(str, lastIndex) ==
  IF lastIndex = StreamDone THEN NoMatch ELSE reNodeExec(str, lastIndex)

\* one resumption of listNodes(xml, options): the next RawNode, and the
\* stream state after it
listNodes(xml, options, lastIndex) ==
  LET start == optional(options, "start", 0)
  IN  Bind(substringFrom(xml, start), LAMBDA sub :
        Bind(multiMatchs(sub, lastIndex), LAMBDA match :
          IF ~match.matched THEN [done |-> TRUE, pos |-> StreamDone]
          ELSE [done |-> FALSE,
                pos |-> match.index + Len(match.all),
                value |-> [end |-> match.end \/ match.prematureEnd,
                           node |-> match.node,
                           attributes |-> listAttributes(match.all),
                           index |-> start + match.index,
                           lastIndex |-> start + match.index + Len(match.all)]]))

\* a[k] of a JavaScript object
lookup(a, k) == IF k \in DOMAIN a THEN a[k] ELSE Undefined

\* computeNodeStart(options.attributes)(a)
computeNodeStart(options, a) ==
  IF "attributes" \notin DOMAIN options THEN TRUE
  ELSE \A k \in DOMAIN options.attributes : lookup(a, k) = options.attributes[k]

\* findNodeStart's test without its !match.end: a self-closing tag of the
\* name would start a node
isNodeStart_selfClosing(match, options) ==
  /\ match.node = options.node
  /\ computeNodeStart(options, match.attributes)

\* the test of findNodeStart
isNodeStart(match, options) ==
  /\ ~match.end
  /\ match.node = options.node
  /\ computeNodeStart(options, match.attributes)

\* the test of findNodeEnd
isNodeEnd(match, options) == match.end /\ match.node = options.node

\* one resumption of findNodeStart(nodes, options): events are pulled from
\* the stream until one passes the test or the stream ends
RECURSIVE findNodeStart(_, _, _)
findNodeStart(xml, options, pos) ==
  Bind(listNodes(xml, options, pos), LAMBDA n :
    IF n.done THEN n
    ELSE IF isNodeStart(n.value, options) THEN n
    ELSE findNodeStart(xml, options, n.pos))

\* one resumption of findNodeEnd(nodes, options), over the same stream
RECURSIVE findNodeEnd(_, _, _)
findNodeEnd(xml, options, pos) ==
  Bind(listNodes(xml, options, pos), LAMBDA n :
    IF n.done THEN n
    ELSE IF isNodeEnd(n.value, options) THEN n
    ELSE findNodeEnd(xml, options, n.pos))

\* findNodes with findNodeEnd reading a stream of its own, from the
\* beginning of the buffer, instead of the stream findNodeStart has advanced
findNodes_endFromStart(xml, options, pos) ==
  Bind(findNodeStart(xml, options, pos), LAMBDA startNode :
    IF startNode.done THEN [done |-> TRUE, pos |-> StreamDone]
    ELSE Bind(findNodeEnd(xml, options, 0), LAMBDA endNode :
      IF endNode.done THEN [done |-> TRUE, pos |-> StreamDone]
      ELSE [done |-> FALSE,
            pos |-> startNode.pos,
            value |-> [node |-> startNode.value.node,
                       attributes |-> startNode.value.attributes,
                       index |-> startNode.value.index,
                       endIndex |-> endNode.value.lastIndex,
                       inner |-> substring(xml, startNode.value.index,
                                           endNode.value.lastIndex)]]))

\* one resumption of findNodes(xml, options): startNode.next(), then
\* endNode.next(), both generators reading the one stream nodes
findNodes(xml, options, pos) ==
  Bind(findNodeStart(xml, options, pos), LAMBDA startNode :
    IF startNode.done THEN [done |-> TRUE, pos |-> StreamDone]
    ELSE Bind(findNodeEnd(xml, options, startNode.pos), LAMBDA endNode :
      IF endNode.done THEN [done |-> TRUE, pos |-> StreamDone]
      ELSE [done |-> FALSE,
            pos |-> endNode.pos,
            value |-> [node |-> startNode.value.node,
                       attributes |-> startNode.value.attributes,
                       index |-> startNode.value.index,
                       endIndex |-> endNode.value.lastIndex,
                       inner |-> substring(xml, startNode.value.index,
                                           endNode.value.lastIndex)]]))

\* every node findNodes(xml, options) yields when run to completion
RECURSIVE findNodesFrom(_, _, _)
findNodesFrom(xml, options, pos) ==
  Bind(findNodes(xml, options, pos), LAMBDA n :
    IF n.done THEN <<>> ELSE <<n.value>> \o findNodesFrom(xml, options, n.pos))

\* A value of type Node | undefined is a sequence of at most one Node.
\* findFirstNode(xml, options)
findFirstNode(xml, options) ==
  Bind(findNodes(xml, options, 0), LAMBDA n :
    IF n.done THEN <<>> ELSE <<n.value>>)

\* findLastNode(xml, options)
findLastNode(xml, options) ==
  Bind(findNodesFrom(xml, options, 0), LAMBDA all :
    IF all = <<>> THEN <<>> ELSE <<all[Len(all)]>>)

-----------------------------------------------------------------------------
(* Escaper, node factory, column range expander                            *)

\* LO_ENTITIES
LO_ENTITIES ==
  [k \in {"&", "<", ">", "\"", "'", "\t", "  "} |->
     CASE k = "&" -> "&amp;"
       [] k = "<" -> "&lt;"
       [] k = ">" -> "&gt;"
       [] k = "\"" -> "&quot;"
       [] k = "'" -> "&apos;"
       [] k = "\t" -> "<text:tab />"
       [] k = "  " -> "<text:tab />"]

\* str.replace(LO_RE, k => LO_ENTITIES[k]) from offset i on: LO_RE is the
\* alternation of the keys, so at each offset a one-character key is tried
\* before the two-space key, and a replaced match is skipped whole
RECURSIVE escapeFrom(_, _)
escapeFrom(str, i) ==
  IF i >= Len(str) THEN ""
  ELSE IF charAt(str, i) \in DOMAIN LO_ENTITIES
       THEN LO_ENTITIES[charAt(str, i)] \o escapeFrom(str, i + 1)
  ELSE IF substring(str, i, i + 2) \in DOMAIN LO_ENTITIES
       THEN LO_ENTITIES[substring(str, i, i + 2)] \o escapeFrom(str, i + 2)
  ELSE charAt(str, i) \o escapeFrom(str, i + 1)

\* escapeLibreOffice(str)
escapeLibreOffice(str) == escapeFrom(str, 0)

\* Array.prototype.join("")
RECURSIVE join(_)
join(strs) == IF strs = <<>> THEN "" ELSE Head(strs) \o join(Tail(strs))

\* An attribute object of the factory keeps its keys in insertion order: a
\* sequence of <<key, value>> with distinct keys.  { ...a, [k]: v }
setEntry(a, k, v) ==
  IF \E i \in 1..Len(a) : a[i][1] = k
  THEN [i \in 1..Len(a) |-> IF a[i][1] = k THEN <<k, v>> ELSE a[i]]
  ELSE Append(a, <<k, v>>)

\* { ...a, ...b } for two attribute objects
RECURSIVE spreadEntries(_, _)
spreadEntries(a, b) ==
  IF b = <<>> THEN a
  ELSE spreadEntries(setEntry(a, Head(b)[1], Head(b)[2]), Tail(b))

\* { ...a, ...b } for two option objects (records with possibly fewer fields)
spread(a, b) ==
  [f \in DOMAIN a \cup DOMAIN b |-> IF f \in DOMAIN b THEN b[f] ELSE a[f]]

\* the NodeFactory constructor
newNodeFactory(options) ==
  spread([attributes |-> <<>>, children |-> <<>>, content |-> ""], options)

\* The options one newNode call works with (odt.ts 284-289).  The argument
\* is a partial options object, the empty object standing for no argument
\* (both spread to nothing), or [string |-> s] for the string s.
mergeOptions(template, options) ==
  IF "string" \in DOMAIN options
  THEN spread(template, [content |-> options.string])
  ELSE spread(spread(template, options),
              [attributes |-> spreadEntries(template.attributes,
                                            optional(options, "attributes", <<>>))])

\* Object.entries(attributes).filter(v !== undefined).map(k="v").join(" ")
RECURSIVE attrText(_)
attrText(attributes) ==
  IF attributes = <<>> THEN ""
  ELSE LET rest == attrText(Tail(attributes))
           k == Head(attributes)[1]
           v == Head(attributes)[2]
       IN  IF v = Undefined THEN rest
           ELSE k \o "=\"" \o v \o "\"" \o (IF rest = "" THEN "" ELSE " " \o rest)

\* the markup newNode builds from the merged options (odt.ts 290-303)
serialize(o) ==
  LET attr == attrText(o.attributes)
      open == "<" \o o.node \o (IF Len(attr) > 0 THEN " " \o attr ELSE "")
  IN  IF Len(o.content) = 0 /\ Len(o.children) = 0
      THEN open \o "/>"
      ELSE open \o ">" \o escapeLibreOffice(o.content) \o join(o.children)
                \o "</" \o o.node \o ">"

\* NodeFactory.newNode(options) on a factory whose #options is template
newNode(template, options) == serialize(mergeOptions(template, options))

\* newNode keeping the options it merged for the call as the factory's
\* #options
optionsAfterNewNode_leak(template, options) == mergeOptions(template, options)

\* NodeFactory.#options after newNode(options): the method assigns neither
\* the field nor anything reachable from it
optionsAfterNewNode(template, options) == template

\* rangeChar(start, end), as the array the caller spreads it into
RECURSIVE rangeChar(_, _)
rangeChar(start, end) ==
  IF start <= end THEN <<fromCharCode(start)>> \o rangeChar(start + 1, end)
  ELSE <<>>

\* group.map(stringFactory)
stringFactory(group) == [i \in 1..Len(group) |-> fromCharCode(group[i])]

\* the loop of calcColumns from offset i on, with the loop's variables
RECURSIVE calcColumnsLoop(_, _, _, _, _)
calcColumnsLoop(columnDef, i, res, hyphen, group) ==
  IF i >= Len(columnDef)
  THEN IF Len(group) > 0 THEN res \o stringFactory(group) ELSE res
  ELSE LET char == charCode(charAt(columnDef, i))
           pushed == Append(group, char)
       IN  IF char >= 65 /\ char <= 90
           THEN IF Len(pushed) >= 2 /\ hyphen
                THEN calcColumnsLoop(columnDef, i + 1,
                       res \o stringFactory(SubSeq(pushed, 1, Len(pushed) - 2))
                           \o rangeChar(pushed[Len(pushed) - 1], pushed[Len(pushed)]),
                       FALSE, <<>>)
                ELSE calcColumnsLoop(columnDef, i + 1, res, FALSE, pushed)
           ELSE calcColumnsLoop(columnDef, i + 1, res, hyphen \/ char = 45, group)

\* calcColumns(columnDef)
calcColumns(columnDef) ==
  IF Len(columnDef) = 1 THEN <<columnDef>>
  ELSE calcColumnsLoop(columnDef, 0, <<>>, FALSE, <<>>)

\* createColumns(tableName, columnDef)
createColumns(tableName, columnDef) ==
  LET fact == newNodeFactory([node |-> "table:table-column"])
      cols == calcColumns(columnDef)
  IN  [i \in 1..Len(cols) |->
         newNode(fact, [attributes |->
                          <<<<"table:style-name", tableName \o "." \o cols[i]>>>>])]

-----------------------------------------------------------------------------
(* Content mutator: OpenDocumentText                                        *)

\* what #unsafe({index, endIndex}, inner) assigns to #content
unsafe(buffer, index, endIndex, inner) ==
  substring(buffer, 0, index) \o inner \o substringFrom(buffer, endIndex)

\* the options of the two findNodes calls of injectVar(name, value)
variableOptions(node, name) ==
  [node |-> node, attributes |-> [k \in {"text:name"} |-> name]]

\* the template literal injectVar splices over a text:variable-set node
variableSet(name, value) ==
  "<text:variable-set text:name=\"" \o name
    \o "\" office:value-type=\"string\">" \o value \o "</text:variable-set>"

\* the template literal injectVar splices over a text:variable-get node
variableGet(name, value) ==
  "<text:variable-get text:name=\"" \o name \o "\">" \o value
    \o "</text:variable-get>"

\* the record kept of one #unsafe call: the buffer the spliced node was
\* found in, #content when the call was made, and the call's arguments
spliceRecord(xml, buffer, index, endIndex, inner) ==
  [xml |-> xml, content |-> buffer, index |-> index, endIndex |-> endIndex,
   inner |-> inner]

\* innerXml searching its last node over the whole buffer, the start
\* override left out of the options it passes to findLastNode
innerXml_lastFromStart(buffer, find, inner) ==
  Bind(findFirstNode(buffer, find.firstNode), LAMBDA firstNode :
    IF firstNode = <<>>
    THEN [content |-> buffer,
          log |-> <<[message |-> "Node not found", find |-> find]>>,
          splices |-> <<>>]
    ELSE IF "lastNode" \notin DOMAIN find
    THEN [content |-> unsafe(buffer, firstNode[1].index, firstNode[1].endIndex, inner),
          log |-> <<>>,
          splices |-> <<spliceRecord(buffer, buffer, firstNode[1].index,
                                     firstNode[1].endIndex, inner)>>]
    ELSE Bind(findLastNode(buffer, find.lastNode), LAMBDA lastNode :
      Bind(IF lastNode = <<>> THEN firstNode[1].endIndex ELSE lastNode[1].endIndex,
           LAMBDA endIndex :
        [content |-> unsafe(buffer, firstNode[1].index, endIndex, inner),
         log |-> <<>>,
         splices |-> <<spliceRecord(buffer, buffer, firstNode[1].index,
                                    endIndex, inner)>>])))

\* innerXml returning without its console.warn when the first node is not
\* found
innerXml_silent(buffer, find, inner) ==
  Bind(findFirstNode(buffer, find.firstNode), LAMBDA firstNode :
    IF firstNode = <<>>
    THEN [content |-> buffer, log |-> <<>>, splices |-> <<>>]
    ELSE IF "lastNode" \notin DOMAIN find
    THEN [content |-> unsafe(buffer, firstNode[1].index, firstNode[1].endIndex, inner),
          log |-> <<>>,
          splices |-> <<spliceRecord(buffer, buffer, firstNode[1].index,
                                     firstNode[1].endIndex, inner)>>]
    ELSE Bind(findLastNode(buffer, spread(find.lastNode,
                                          [start |-> firstNode[1].endIndex])),
              LAMBDA lastNode :
      Bind(IF lastNode = <<>> THEN firstNode[1].endIndex ELSE lastNode[1].endIndex,
           LAMBDA endIndex :
        [content |-> unsafe(buffer, firstNode[1].index, endIndex, inner),
         log |-> <<>>,
         splices |-> <<spliceRecord(buffer, buffer, firstNode[1].index,
                                    endIndex, inner)>>])))

\* innerXml(find, inner) on a document whose #content is buffer: the new
\* #content, the console.warn calls and the #unsafe calls it makes
innerXml(buffer, find, inner) ==
  Bind(findFirstNode(buffer, find.firstNode), LAMBDA firstNode :
    IF firstNode = <<>>
    THEN [content |-> buffer,
          log |-> <<[message |-> "Node not found", find |-> find]>>,
          splices |-> <<>>]
    ELSE IF "lastNode" \notin DOMAIN find
    THEN [content |-> unsafe(buffer, firstNode[1].index, firstNode[1].endIndex, inner),
          log |-> <<>>,
          splices |-> <<spliceRecord(buffer, buffer, firstNode[1].index,
                                     firstNode[1].endIndex, inner)>>]
    ELSE Bind(findLastNode(buffer, spread(find.lastNode,
                                          [start |-> firstNode[1].endIndex])),
              LAMBDA lastNode :
      Bind(IF lastNode = <<>> THEN firstNode[1].endIndex ELSE lastNode[1].endIndex,
           LAMBDA endIndex :
        [content |-> unsafe(buffer, firstNode[1].index, endIndex, inner),
         log |-> <<>>,
         splices |-> <<spliceRecord(buffer, buffer, firstNode[1].index,
                                    endIndex, inner)>>])))

-----------------------------------------------------------------------------
(* State machine.  Every specification below starts from a document (or a   *)
(* factory) drawn from a bounded set and runs the operations one at a time: *)
(* a call is entered only when pc = "idle".                                 *)

\* the state of the parts an operation does not use
NoCall == [op |-> "none"]

NoGen == [xml |-> "", options |-> [node |-> ""], pos |-> StreamDone]

NoFactory == [node |-> "", attributes |-> <<>>, content |-> "", children |-> <<>>]

NoResult == [op |-> "none"]

\* every concatenation of at most n strings of pieces
Concatenations(pieces, n) ==
  {join(ps) : ps \in UNION {[1..k -> pieces] : k \in 0..n}}

\* all RawNodes listNodes(xml, options) yields when run to completion
RECURSIVE listNodesFrom(_, _, _)
listNodesFrom(xml, options, pos) ==
  Bind(listNodes(xml, options, pos), LAMBDA n :
    IF n.done THEN <<>> ELSE <<n.value>> \o listNodesFrom(xml, options, n.pos))

(* findNodes driven directly, as main() drives it: the document and the    *)
(* options are the inputs, the state is the generator's.                    *)

MaxFindPieces == 3

\* the fragments buffers are built from: an open tag, an element with an
\* attribute, a close tag, a self-closing tag, an element of another name
FindPieces ==
  {"<text:p>", "<text:p text:name=\"x\">a</text:p>", "</text:p>", "<text:p/>",
   "<text:b>c</text:b>"}

FindDocs == Concatenations(FindPieces, MaxFindPieces)

FindFilters ==
  {[node |-> "text:p"],
   [node |-> "text:p", attributes |-> [k \in {"text:name"} |-> "x"]],
   [node |-> "text:p", attributes |-> [k \in {"text:name"} |-> Undefined]]}

\* start offsets tried on a buffer: inside its first tag, and at the ends
\* of its first two tags
FindStarts(xml) ==
  Bind(listNodesFrom(xml, [node |-> ""], 0), LAMBDA tags :
    {1} \cup {tags[i].lastIndex : i \in 1..Min(2, Len(tags))})

\* the options tried on a buffer: each filter without and with a start
FindOptions(xml) ==
  FindFilters \cup
  {f @@ [start |-> st] : f \in FindFilters, st \in FindStarts(xml)}

\* a caller holds the generator findNodes(#content, options), not yet resumed
InitFind ==
  /\ content \in FindDocs
  /\ \E options \in FindOptions(content) :
       /\ call = [op |-> "findNodes", options |-> options]
       /\ gen = [xml |-> content, options |-> options, pos |-> 0]
  /\ pc = "findNodes"
  /\ before = content
  /\ splices = <<>>
  /\ yielded = <<>>
  /\ log = <<>>
  /\ factory = NoFactory
  /\ factory0 = NoFactory
  /\ result = NoResult

\* the caller's for-of loop resumes the generator once: a node is yielded,
\* or the generator returns and the loop ends
FindNodesNext ==
  /\ pc = "findNodes"
  /\ \E n \in {findNodes(gen.xml, gen.options, gen.pos)} :
       /\ gen' = [gen EXCEPT !.pos = n.pos]
       /\ yielded' = IF n.done THEN yielded ELSE Append(yielded, n.value)
       /\ pc' = IF n.done THEN "idle" ELSE "findNodes"
  /\ UNCHANGED <<content, call, before, splices, log, factory, factory0, result>>

NextFind == FindNodesNext

SpecFind == InitFind /\ [][NextFind]_vars

(* Properties of findNodes, stated over the tag events of the buffer.       *)

\* the tag events the scanner produces for the generator's buffer and options
Events == listNodesFrom(gen.xml, gen.options, 0)

\* the generator's start offset
StartOf(options) == optional(options, "start", 0)

\* the event is an explicit close tag: its text begins "</"
IsCloseTag(xml, e) == charAt(xml, e.index + 1) = "/"

\* the k-th smallest member of a set of numbers
Nth(S, k) == CHOOSE x \in S : Cardinality({y \in S : y < x}) = k - 1

\* sub-sequence (a) of the positional pairing, as the set of its indices in
\* ev: open and self-closing events of the name whose attributes pass the
\* filter
PositionalA(xml, options, ev) ==
  {i \in 1..Len(ev) : /\ ~IsCloseTag(xml, ev[i])
                      /\ ev[i].node = options.node
                      /\ computeNodeStart(options, ev[i].attributes)}

\* sub-sequence (b) of the positional pairing: close events of the name,
\* read as the explicit close tags only
PositionalB(xml, options, ev) ==
  {i \in 1..Len(ev) : IsCloseTag(xml, ev[i]) /\ ev[i].node = options.node}

\* sub-sequence (b) read as every event the scanner flags as a close, the
\* self-closing tags included
PositionalBFlagged(options, ev) ==
  {i \in 1..Len(ev) : ev[i].end /\ ev[i].node = options.node}

\* the yielded nodes are the pairing of the k-th of A with the k-th of B
IsPositionalPairing(ev, A, B) ==
  LET n == Min(Cardinality(A), Cardinality(B))
  IN  /\ Len(yielded) <= n
      /\ pc = "idle" => Len(yielded) = n
      /\ \A k \in 1..Len(yielded) :
           /\ yielded[k].index = ev[Nth(A, k)].index
           /\ yielded[k].endIndex = ev[Nth(B, k)].lastIndex

\* C1 as stated: the k-th yielded node runs from the k-th event of (a) to
\* the k-th event of (b), the two filtered independently over the whole
\* stream, and when the generator has returned there are min(|a|, |b|)
\* nodes; under either reading of (b).
C1_PositionalPairing ==
  pc \in {"findNodes", "idle"} /\ call.op = "findNodes" =>
    LET ev == Events
        A == PositionalA(gen.xml, gen.options, ev)
    IN  \/ IsPositionalPairing(ev, A, PositionalB(gen.xml, gen.options, ev))
        \/ IsPositionalPairing(ev, A, PositionalBFlagged(gen.options, ev))

\* the least index of ev after i whose event is an open tag (neither an
\* explicit close nor self-closing) of the name passing the filter, or 0
NextOpen(options, ev, i) ==
  LET S == {j \in (i + 1)..Len(ev) : /\ ~ev[j].end
                                     /\ ev[j].node = options.node
                                     /\ computeNodeStart(options, ev[j].attributes)}
  IN  IF S = {} THEN 0 ELSE CHOOSE j \in S : \A m \in S : j <= m

\* the least index of ev after i whose event closes (an explicit close or a
\* self-closing tag) the name, or 0
NextClose(options, ev, i) ==
  LET S == {j \in (i + 1)..Len(ev) : ev[j].end /\ ev[j].node = options.node}
  IN  IF S = {} THEN 0 ELSE CHOOSE j \in S : \A m \in S : j <= m

\* the sequential pairing over one stream, from the event after i on: the
\* next open event with the next closing event after it, then on from there
RECURSIVE SequentialPairs(_, _, _)
SequentialPairs(options, ev, i) ==
  LET o == NextOpen(options, ev, i)
      c == IF o = 0 THEN 0 ELSE NextClose(options, ev, o)
  IN  IF o = 0 \/ c = 0 THEN <<>>
      ELSE <<(<<o, c>>)>> \o SequentialPairs(options, ev, c)

\* C1 as amended: the yielded nodes are the sequential pairing of one shared
\* stream: the k-th node runs from the first open event (self-closing tags
\* excluded) of the name passing the filter after the previous node's
\* closing event, to the first closing event (explicit or self-closing) of
\* the name after it; nothing else is yielded.
C1_SequentialPairing ==
  pc \in {"findNodes", "idle"} /\ call.op = "findNodes" =>
    LET ev == Events
        pairs == SequentialPairs(gen.options, ev, 0)
    IN  /\ Len(yielded) <= Len(pairs)
        /\ pc = "idle" => Len(yielded) = Len(pairs)
        /\ \A k \in 1..Len(yielded) :
             /\ yielded[k].index = ev[pairs[k][1]].index
             /\ yielded[k].endIndex = ev[pairs[k][2]].lastIndex
             /\ yielded[k].node = gen.options.node
             /\ yielded[k].attributes = ev[pairs[k][1]].attributes

\* C1's case: the generator has returned after yielding a node that the
\* filter let start only after rejecting an earlier open tag of the name,
\* on a buffer holding a self-closing tag of the name as well
C1_Witness ==
  /\ pc = "idle" /\ call.op = "findNodes"
  /\ "attributes" \in DOMAIN gen.options
  /\ Len(yielded) >= 1
  /\ LET ev == Events
     IN  /\ \E i \in 1..Len(ev) : /\ ev[i].index < yielded[1].index
                                  /\ ~ev[i].end
                                  /\ ev[i].node = gen.options.node
         /\ \E i \in 1..Len(ev) : /\ ev[i].node = gen.options.node
                                  /\ ~IsCloseTag(gen.xml, ev[i])
                                  /\ ev[i].end

\* C5 as stated: a yielded node's open tag carries every key of the filter,
\* with the filter's value
C5_FilterKeysPresent ==
  call.op = "findNodes" /\ "attributes" \in DOMAIN gen.options =>
    \A k \in 1..Len(yielded) :
      \A key \in DOMAIN gen.options.attributes :
        /\ key \in DOMAIN yielded[k].attributes
        /\ yielded[k].attributes[key] = gen.options.attributes[key]

\* C10: every yielded node lies within the buffer at or after the start
\* offset, is not empty, carries the text of its span, runs from one tag
\* event to a later one, and begins no earlier than the previous node ends.
C10_SpanInvariant ==
  call.op = "findNodes" =>
    LET ev == Events
    IN  \A k \in 1..Len(yielded) :
          /\ StartOf(gen.options) <= yielded[k].index
          /\ yielded[k].index < yielded[k].endIndex
          /\ yielded[k].endIndex <= Len(gen.xml)
          /\ yielded[k].inner = SubSeq(gen.xml, yielded[k].index + 1,
                                       yielded[k].endIndex)
          /\ \E i \in 1..Len(ev), j \in 1..Len(ev) :
               /\ i < j
               /\ ev[i].index = yielded[k].index
               /\ ev[j].lastIndex = yielded[k].endIndex
          /\ k > 1 => yielded[k].index >= yielded[k - 1].endIndex

\* C10's case: two nodes yielded from a buffer scanned from a start offset
\* past its beginning
C10_Witness ==
  /\ call.op = "findNodes"
  /\ Len(yielded) >= 2
  /\ StartOf(gen.options) > 0

(* One call of injectVar, injectVars or innerXml on a document.  The two   *)
(* for-of loops of injectVar are run one resumption of their generator at   *)
(* a time; pc is the loop that is running.                                  *)

MaxDocPieces == 3

DocPieces ==
  {"<text:variable-set text:name=\"x\">1</text:variable-set>",
   "<text:variable-get text:name=\"x\">1</text:variable-get>",
   "<text:variable-set text:name=\"y\" office:value-type=\"string\">22</text:variable-set>",
   "<text:p>t</text:p>"}

Docs == Concatenations(DocPieces, MaxDocPieces)

\* variables passed to injectVar and injectVars, as <<name, value>>
Names == {"x", "z"}

Values == {"v", "a&b"}

VarMaps == {<<<<"x", "v">>, <<"y", "a&b">>>>, <<<<"z", "v">>>>, <<>>}

\* locators and markup passed to innerXml
FirstNodes ==
  {[node |-> "text:variable-set"], variableOptions("text:variable-get", "x")}

LastNodes ==
  {[node |-> "text:variable-get"], variableOptions("text:variable-set", "y")}

Finds ==
  {[firstNode |-> f] : f \in FirstNodes} \cup
  {[firstNode |-> f, lastNode |-> l] : f \in FirstNodes, l \in LastNodes}

Inners == {"", "<text:p>n</text:p>"}

Init ==
  /\ content \in Docs
  /\ pc = "idle"
  /\ gen = NoGen
  /\ call = NoCall
  /\ before = content
  /\ splices = <<>>
  /\ yielded = <<>>
  /\ log = <<>>
  /\ factory = NoFactory
  /\ factory0 = NoFactory
  /\ result = NoResult

\* the generator the first loop of injectVar(name, value) consumes
variableSetGen(name) ==
  [xml |-> content, options |-> variableOptions("text:variable-set", name), pos |-> 0]

\* the generator the second loop of injectVar(name, value) consumes
variableGetGen(name) ==
  [xml |-> content, options |-> variableOptions("text:variable-get", name), pos |-> 0]

\* injectVar(name, value) is entered: the first loop obtains its generator
InjectVar ==
  /\ pc = "idle"
  /\ \E name \in Names, value \in Values :
       /\ call' = [op |-> "injectVar", vars |-> <<<<name, value>>>>, i |-> 1]
       /\ gen' = variableSetGen(name)
  /\ pc' = "variable-set"
  /\ UNCHANGED <<content, before, splices, yielded, log, factory, factory0, result>>

\* injectVars(vars) is entered: injectVar is entered for the first entry
InjectVars ==
  /\ pc = "idle"
  /\ \E map \in VarMaps :
       /\ call' = [op |-> "injectVars", vars |-> map, i |-> 1]
       /\ gen' = IF map = <<>> THEN NoGen ELSE variableSetGen(map[1][1])
       /\ pc' = IF map = <<>> THEN "done" ELSE "variable-set"
  /\ UNCHANGED <<content, before, splices, yielded, log, factory, factory0, result>>

\* the first loop of injectVar resumes its generator: a yielded node is
\* spliced over, or the loop ends and the second loop obtains its generator
InjectSetNext ==
  /\ pc = "variable-set"
  /\ \E n \in {findNodes(gen.xml, gen.options, gen.pos)} :
       IF n.done
       THEN /\ pc' = "variable-get"
            /\ gen' = variableGetGen(call.vars[call.i][1])
            /\ UNCHANGED <<content, splices, yielded>>
       ELSE \E inner \in {variableSet(call.vars[call.i][1], call.vars[call.i][2])} :
            /\ content' = unsafe(content, n.value.index, n.value.endIndex, inner)
            /\ splices' = Append(splices, spliceRecord(gen.xml, content, n.value.index,
                                                       n.value.endIndex, inner))
            /\ yielded' = Append(yielded, n.value)
            /\ gen' = [gen EXCEPT !.pos = n.pos]
            /\ pc' = "variable-set"
  /\ UNCHANGED <<call, before, log, factory, factory0, result>>

\* the second loop of injectVar resumes its generator: a yielded node is
\* spliced over, or injectVar returns and injectVars enters it for its next
\* entry, if any
InjectGetNext ==
  /\ pc = "variable-get"
  /\ \E n \in {findNodes(gen.xml, gen.options, gen.pos)} :
       IF n.done
       THEN /\ IF call.i < Len(call.vars)
               THEN /\ call' = [call EXCEPT !.i = call.i + 1]
                    /\ gen' = variableSetGen(call.vars[call.i + 1][1])
                    /\ pc' = "variable-set"
               ELSE /\ call' = call
                    /\ gen' = [gen EXCEPT !.pos = n.pos]
                    /\ pc' = "done"
            /\ UNCHANGED <<content, splices, yielded>>
       ELSE \E inner \in {variableGet(call.vars[call.i][1], call.vars[call.i][2])} :
            /\ content' = unsafe(content, n.value.index, n.value.endIndex, inner)
            /\ splices' = Append(splices, spliceRecord(gen.xml, content, n.value.index,
                                                       n.value.endIndex, inner))
            /\ yielded' = Append(yielded, n.value)
            /\ gen' = [gen EXCEPT !.pos = n.pos]
            /\ call' = call
            /\ pc' = "variable-get"
  /\ UNCHANGED <<before, log, factory, factory0, result>>

\* innerXml(find, inner), start to return
InnerXml ==
  /\ pc = "idle"
  /\ \E find \in Finds, inner \in Inners :
       /\ call' = [op |-> "innerXml", find |-> find, inner |-> inner]
       /\ \E r \in {innerXml(content, find, inner)} :
            /\ content' = r.content
            /\ log' = r.log
            /\ splices' = r.splices
  /\ pc' = "done"
  /\ UNCHANGED <<gen, before, yielded, factory, factory0, result>>

Next == InjectVar \/ InjectVars \/ InjectSetNext \/ InjectGetNext \/ InnerXml

Spec == Init /\ [][Next]_vars

(* calcColumns and createColumns, called once on a column definition.      *)

MaxColumnDefLen == 4

ColumnChars == {"A", "B", "C", "-"}

\* the column definitions tried: every string of at most MaxColumnDefLen
\* characters, and the examples of calcColumns' documentation
ColumnDefs ==
  Concatenations(ColumnChars, MaxColumnDefLen) \cup {"E", "A-BB-E"}

TableNames == {"Table1"}

InitColumns ==
  /\ content = ""
  /\ pc = "idle"
  /\ gen = NoGen
  /\ call = NoCall
  /\ before = ""
  /\ splices = <<>>
  /\ yielded = <<>>
  /\ log = <<>>
  /\ factory = NoFactory
  /\ factory0 = NoFactory
  /\ result = NoResult

\* calcColumns(columnDef), start to return
CalcColumns ==
  /\ pc = "idle"
  /\ \E columnDef \in ColumnDefs :
       result' = [op |-> "calcColumns", columnDef |-> columnDef,
                  value |-> calcColumns(columnDef)]
  /\ pc' = "done"
  /\ UNCHANGED <<content, gen, call, before, splices, yielded, log, factory, factory0>>

\* createColumns(tableName, columnDef), start to return
CreateColumns ==
  /\ pc = "idle"
  /\ \E tableName \in TableNames, columnDef \in ColumnDefs :
       result' = [op |-> "createColumns", columnDef |-> columnDef,
                  tableName |-> tableName,
                  value |-> createColumns(tableName, columnDef)]
  /\ pc' = "done"
  /\ UNCHANGED <<content, gen, call, before, splices, yielded, log, factory, factory0>>

NextColumns == CalcColumns \/ CreateColumns

SpecColumns == InitColumns /\ [][NextColumns]_vars

\* the left-to-right rule of C8 from offset i on: group holds the letters
\* accumulated, pending is the mark a hyphen sets, out the letters emitted
RECURSIVE RuleFrom(_, _, _, _, _)
RuleFrom(def, i, group, pending, out) ==
  IF i > Len(def) THEN out \o group
  ELSE LET c == SubSeq(def, i, i)
       IN  IF c = "-" THEN RuleFrom(def, i + 1, group, TRUE, out)
           ELSE IF pending /\ Len(group) >= 1
           THEN LET start == charCode(group[Len(group)])
                    end == charCode(c)
                IN  RuleFrom(def, i + 1, <<>>, FALSE,
                             out \o SubSeq(group, 1, Len(group) - 1)
                                 \o [k \in 1..Max(0, end - start + 1) |->
                                       fromCharCode(start + k - 1)])
           ELSE RuleFrom(def, i + 1, Append(group, c), FALSE, out)

\* the column identifiers the rule gives for a definition
RuleColumns(def) == RuleFrom(def, 1, <<>>, FALSE, <<>>)

\* C8 as stated: calcColumns returns the list the left-to-right rule
\* gives, for every definition over uppercase letters and hyphens, and
\* createColumns builds one column per identifier of that list
C8_ColumnsFollowRule ==
  /\ result.op = "calcColumns" => result.value = RuleColumns(result.columnDef)
  /\ result.op = "createColumns" =>
       Len(result.value) = Len(RuleColumns(result.columnDef))

(* A NodeFactory in use: newNode calls with overrides, and the setters.    *)

FactoryNodes == {"text:p", "text:span"}

FactoryAttributes ==
  {<<>>, <<<<"text:name", "x">>>>,
   <<<<"text:name", "y">>, <<"text:style-name", Undefined>>>>}

FactoryContents == {"", "a<b"}

FactoryChildren == {<<>>, <<"<text:tab/>">>}

\* the options the constructor is given
FactoryOptions ==
  {[node |-> n] : n \in FactoryNodes} \cup
  {[node |-> n, attributes |-> a] : n \in FactoryNodes,
                                    a \in FactoryAttributes \ {<<>>}}

\* the objects newNode is given
Overrides ==
  {[attributes |-> a] : a \in FactoryAttributes} \cup
  {[node |-> n, attributes |-> a] : n \in FactoryNodes, a \in FactoryAttributes} \cup
  {[content |-> c] : c \in FactoryContents} \cup
  {[children |-> c, content |-> t] : c \in FactoryChildren, t \in FactoryContents} \cup
  {[string |-> c] : c \in FactoryContents}

\* a factory has been constructed and has made no node yet
InitFactory ==
  /\ content = ""
  /\ pc = "idle"
  /\ gen = NoGen
  /\ call = NoCall
  /\ before = ""
  /\ splices = <<>>
  /\ yielded = <<>>
  /\ log = <<>>
  /\ \E options \in FactoryOptions : factory = newNodeFactory(options)
  /\ factory0 = factory
  /\ result = NoResult

\* what one newNode call leaves: the options it worked with, the markup
\* it returned, and the factory's #options
NewNodeCall(options) ==
  /\ result' = [op |-> "newNode", options |-> options,
                merged |-> mergeOptions(factory, options),
                markup |-> newNode(factory, options)]
  /\ factory' = optionsAfterNewNode(factory, options)
  /\ UNCHANGED <<content, pc, gen, call, before, splices, yielded, log, factory0>>

\* newNode(options) with an object or a string
NewNode == \E options \in Overrides : NewNodeCall(options)

\* newNode() without an argument
NewNodeNoArgument == NewNodeCall(<<>>)

\* one of the setters assigns a field of #options; factory0 is the
\* template as the constructor and the setters have left it
SetField(field, value) ==
  /\ factory' = [factory EXCEPT ![field] = value]
  /\ factory0' = factory'
  /\ result' = [op |-> "set", field |-> field]
  /\ UNCHANGED <<content, pc, gen, call, before, splices, yielded, log>>

SetNode == \E node \in FactoryNodes : SetField("node", node)

SetAttributes == \E attributes \in FactoryAttributes : SetField("attributes", attributes)

SetContent == \E text \in FactoryContents : SetField("content", text)

SetChildren == \E children \in FactoryChildren : SetField("children", children)

NextFactory ==
  \/ NewNode
  \/ NewNodeNoArgument
  \/ SetNode
  \/ SetAttributes
  \/ SetContent
  \/ SetChildren

SpecFactory == InitFactory /\ [][NextFactory]_vars

\* the keys of an attribute object
Keys(a) == {a[i][1] : i \in 1..Len(a)}

\* the value an attribute object holds for one of its keys
ValueOf(a, k) == a[CHOOSE i \in 1..Len(a) : a[i][1] = k][2]

\* m is the shallow merge of the attribute objects t and o: the keys of
\* both, each once, a key of o with o's value and any other with t's
IsShallowMerge(m, t, o) ==
  /\ Keys(m) = Keys(t) \cup Keys(o)
  /\ Len(m) = Cardinality(Keys(m))
  /\ \A k \in Keys(m) :
       ValueOf(m, k) = IF k \in Keys(o) THEN ValueOf(o, k) ELSE ValueOf(t, k)

\* the field of the options a newNode call works with: the override's when
\* the override has it, the template's otherwise
Replaced(field) ==
  result.merged[field] = IF field \in DOMAIN result.options
                         THEN result.options[field] ELSE factory0[field]

\* C9: newNode calls leave the factory's template as the constructor and
\* the setters set it, so newNode() returns the same markup after them as
\* before; within a call the attributes are the shallow merge of the
\* template's and the override's, the other fields are the override's where
\* it has them, a string override being the content.
C9_NoLeak ==
  /\ factory = factory0
  /\ result.op = "newNode" =>
       /\ newNode(factory, <<>>) = newNode(factory0, <<>>)
       /\ result.markup = serialize(result.merged)
       /\ IF "string" \in DOMAIN result.options
          THEN /\ result.merged.content = result.options.string
               /\ result.merged.attributes = factory0.attributes
               /\ result.merged.node = factory0.node
               /\ result.merged.children = factory0.children
          ELSE /\ IsShallowMerge(result.merged.attributes, factory0.attributes,
                                 optional(result.options, "attributes", <<>>))
               /\ Replaced("node")
               /\ Replaced("content")
               /\ Replaced("children")

\* C9's case: a newNode call has overridden the node and an attribute the
\* template holds, on a factory whose template has attributes
C9_Witness ==
  /\ result.op = "newNode"
  /\ "node" \in DOMAIN result.options
  /\ result.options.node # factory0.node
  /\ "attributes" \in DOMAIN result.options
  /\ Keys(result.options.attributes) \cap Keys(factory0.attributes) # {}
  /\ result.merged.attributes # factory0.attributes

(* Properties of the document operations, stated over the tag events of    *)
(* the buffer the call was made on (before).                                *)

\* the tag events of the whole buffer the call was made on
EventsBefore == listNodesFrom(before, [node |-> ""], 0)

\* the call in progress or completed is injectVar or injectVars
IsInject == call.op \in {"injectVar", "injectVars"}

\* C2 as stated: every #unsafe call splices a node found by a scan of the
\* buffer as it is when the call is made
C2_NoStaleOffsets ==
  \A i \in 1..Len(splices) : splices[i].xml = splices[i].content


\* the spans of the elements of the given kind declaring name in the tag
\* events ev, each with the markup that replaces it
Rewrites(ev, kind, name, inner) ==
  LET pairs == SequentialPairs(variableOptions(kind, name), ev, 0)
  IN  {[index |-> ev[pairs[k][1]].index, endIndex |-> ev[pairs[k][2]].lastIndex,
        inner |-> inner] : k \in 1..Len(pairs)}

\* buffer from offset from on, with every span of rs replaced by its markup
RECURSIVE Rebuild(_, _, _)
Rebuild(buffer, rs, from) ==
  LET later == {r \in rs : r.index >= from}
  IN  IF later = {} THEN substringFrom(buffer, from)
      ELSE LET r == CHOOSE x \in later : \A y \in later : x.index <= y.index
           IN  substring(buffer, from, r.index) \o r.inner
                 \o Rebuild(buffer, rs, r.endIndex)

\* C3 as stated: when injectVar(name, value) has returned, every
\* text:variable-set and text:variable-get element of the original buffer
\* declaring name is replaced by the new declaration carrying value, and the
\* text outside those elements is as it was
C3_AllRewrittenInPlace ==
  pc = "done" /\ call.op = "injectVar" =>
    LET name == call.vars[1][1]
        value == call.vars[1][2]
        ev == EventsBefore
    IN  content =
          Rebuild(before,
                  Rewrites(ev, "text:variable-set", name, variableSet(name, value))
                    \cup Rewrites(ev, "text:variable-get", name,
                                  variableGet(name, value)),
                  0)

\* C4 as stated: the markup injectVar splices in carries the escaped value
C4_EscapedValue ==
  IsInject =>
    \A i \in 1..Len(splices) :
      \E e \in 1..Len(call.vars) :
        LET text == escapeLibreOffice(call.vars[e][2])
        IN  splices[i].inner \in {variableSet(call.vars[e][1], text),
                                  variableGet(call.vars[e][1], text)}

\* the first node innerXml's first locator finds in ev, as a pair of event
\* indices, in a sequence of at most one
FirstPair(ev) ==
  LET pairs == SequentialPairs(call.find.firstNode, ev, 0)
  IN  IF pairs = <<>> THEN <<>> ELSE <<pairs[1]>>

\* the nodes innerXml's last locator finds among the events after event c
LastPairs(ev, c) ==
  IF "lastNode" \in DOMAIN call.find
  THEN SequentialPairs(call.find.lastNode, ev, c)
  ELSE <<>>

\* the offset E of C6: the end of the last node of the last locator after
\* the first node, or the end of the first node when there is none
SpanEnd(ev, first) ==
  LET lasts == LastPairs(ev, first[2])
  IN  IF lasts = <<>> THEN ev[first[2]].lastIndex
      ELSE ev[lasts[Len(lasts)][2]].lastIndex

\* C6: when innerXml(find, inner) has found its first node, the buffer is
\* old[0, first.index) + inner + old[E, len), for E the end of the first
\* node when there is no last locator or it finds nothing among the tags
\* from the first node's end on, and the end of the last node it finds there
\* otherwise; E >= first.endIndex, and the length changes accordingly.
C6_InnerXmlSpan ==
  pc = "done" /\ call.op = "innerXml" =>
    LET ev == EventsBefore
        first == FirstPair(ev)
    IN  first # <<>> =>
          LET index == ev[first[1][1]].index
              E == SpanEnd(ev, first[1])
          IN  /\ content = SubSeq(before, 1, index) \o call.inner
                             \o SubSeq(before, E + 1, Len(before))
              /\ E >= ev[first[1][2]].lastIndex
              /\ Len(content) = Len(before) + Len(call.inner) - (E - index)

\* C6's case: innerXml has returned after replacing a span that runs from
\* its first node to a last node found beyond it, while a node of the last
\* locator also lies before the first node
C6_Witness ==
  /\ pc = "done" /\ call.op = "innerXml"
  /\ "lastNode" \in DOMAIN call.find
  /\ LET ev == EventsBefore
         first == FirstPair(ev)
     IN  /\ first # <<>>
         /\ LastPairs(ev, first[1][2]) # <<>>
         /\ LastPairs(ev, 0) # LastPairs(ev, first[1][2])
         /\ content # before

\* the inject call names a variable, and no element of the buffer the call
\* was made on matches any variable it names
NoVariableMatches(ev) ==
  /\ Len(call.vars) > 0
  /\ \A e \in 1..Len(call.vars) :
       \A kind \in {"text:variable-set", "text:variable-get"} :
         SequentialPairs(variableOptions(kind, call.vars[e][1]), ev, 0) = <<>>

\* a warning naming the locators of the innerXml call is in the log
Warned == \E i \in 1..Len(log) : log[i].find = call.find

\* C7 as stated: whenever the first or the last locator of innerXml, or
\* injectVar, has no match, a warning naming the locator is logged and the
\* buffer is left as it was
C7_NotFoundWarnsAndKeeps ==
  pc = "done" =>
    LET ev == EventsBefore
    IN  /\ call.op = "innerXml" /\ FirstPair(ev) = <<>> =>
             Warned /\ content = before
        /\ call.op = "innerXml" /\ FirstPair(ev) # <<>>
             /\ "lastNode" \in DOMAIN call.find
             /\ LastPairs(ev, FirstPair(ev)[1][2]) = <<>> =>
             Warned /\ content = before
        /\ IsInject /\ NoVariableMatches(ev) =>
             Len(log) > 0 /\ content = before

\* C7 as amended: only a first locator of innerXml without a match is
\* logged, once, with the call's locators, the buffer left as it was; a last
\* locator without a match is not logged and the first node's own span is
\* replaced; injectVar and injectVars without a match leave the buffer as it
\* was and log nothing.
C7_NotFoundOutcomes ==
  pc = "done" =>
    LET ev == EventsBefore
    IN  /\ call.op = "innerXml" /\ FirstPair(ev) = <<>> =>
             /\ log = <<[message |-> "Node not found", find |-> call.find]>>
             /\ content = before
             /\ splices = <<>>
        /\ call.op = "innerXml" /\ FirstPair(ev) # <<>> =>
             /\ log = <<>>
             /\ Len(splices) = 1
        /\ call.op = "innerXml" /\ FirstPair(ev) # <<>>
             /\ "lastNode" \in DOMAIN call.find
             /\ LastPairs(ev, FirstPair(ev)[1][2]) = <<>> =>
             content = SubSeq(before, 1, ev[FirstPair(ev)[1][1]].index) \o call.inner
                         \o SubSeq(before, ev[FirstPair(ev)[1][2]].lastIndex + 1,
                                   Len(before))
        /\ IsInject /\ NoVariableMatches(ev) =>
             /\ log = <<>>
             /\ content = before
             /\ splices = <<>>

\* C7's case: innerXml has returned without finding its first node, on a
\* buffer that is not empty
C7_Witness ==
  /\ pc = "done" /\ call.op = "innerXml"
  /\ before # ""
  /\ FirstPair(EventsBefore) = <<>>
  /\ Len(log) = 1

====
